---- MODULE Spec2Model ----
(***************************************************************************)
(* Anomaly detection engine of the solar back end                          *)
(* (application/anomaly-detection.ts and its callers).                     *)
(*                                                                         *)
(* A daily aggregate series is a sequence of integer energy totals; the    *)
(* i-th entry is the i-th day of the ascending "_id.date" order produced   *)
(* by the $group/$sort pipeline, so a date is represented by its position. *)
(* Real-valued thresholds (0.3 * avg, 1.5 * iqr, ...) are compared by      *)
(* cross-multiplication, which is exact on the integers used here.         *)
(***************************************************************************)
EXTENDS Integers, Sequences, FiniteSets, TLC

\* ------------------------------------------------------------------ bounds

\* Longest daily series the detector specification enumerates.
MaxLen == 7

\* Daily aggregates stored in total, over all units, in the orchestrator specifications.
MaxDays == 4

\* resolveAnomaly requests served in one behaviour.
MaxResolves == 1

\* Longest daily series given to the temperature detector (its window is 7 days).
MaxTemperatureLen == 8

\* Days of new readings synced for a unit after its first week.
MaxSyncedDays == 2

\* ---------------------------------------------------------------- helpers

Null == [absent |-> TRUE]

RECURSIVE Sum(_)
Sum(s) == IF s = <<>> THEN 0 ELSE Head(s) + Sum(Tail(s))

\* r.totalEnergy || 0 for each record, in series order
Energies(records) == [i \in 1..Len(records) |-> records[i]]

RECURSIVE InsertDesc(_, _)
InsertDesc(x, s) ==
    IF s = <<>> THEN <<x>>
    ELSE IF x >= Head(s) THEN <<x>> \o s
    ELSE <<Head(s)>> \o InsertDesc(x, Tail(s))

RECURSIVE SortDesc(_)
\* .sort((a, b) => b - a)
SortDesc(s) == IF s = <<>> THEN <<>> ELSE InsertDesc(Head(s), SortDesc(Tail(s)))

\* .sort((a, b) => a - b)
SortAsc(s) == LET d == SortDesc(s) IN [i \in 1..Len(d) |-> d[Len(d) + 1 - i]]

\* records.slice(-k)
LastK(s, k) == IF Len(s) <= k THEN s ELSE SubSeq(s, Len(s) - k + 1, Len(s))

\* slice(0, k)
FirstK(s, k) == IF Len(s) <= k THEN s ELSE SubSeq(s, 1, k)

\* a percentage kept exact as the fraction num / den
Pct(num, den) == [num |-> num, den |-> den]

\* ------------------------------------------------- minimum history guards

MechanicalMinHistory == 2
\* one day less of history than the temperature detector asks for
TemperatureMinHistoryShort == 7 - 1
TemperatureMinHistory == 7
ShadingMinHistory == 5
SensorMinHistory == 3

\* --------------------------------------------------------------- detectors

\* the zero-rule finding dated a day early
ZeroFindingPrevDay(i, prevEnergy, currEnergy) ==
    [anomalyType |-> "MECHANICAL",
     severity |-> "CRITICAL",
     affectedStartDate |-> i - 1,
     affectedEndDate |-> i - 1,
     metadata |-> [previousEnergy |-> prevEnergy,
                   currentEnergy |-> currEnergy,
                   dropPercentage |-> Pct(100, 1)]]

\* the finding pushed for a complete production failure on day i
ZeroFinding(i, prevEnergy, currEnergy) ==
    [anomalyType |-> "MECHANICAL",
     severity |-> "CRITICAL",
     affectedStartDate |-> i,
     affectedEndDate |-> i,
     metadata |-> [previousEnergy |-> prevEnergy,
                   currentEnergy |-> currEnergy,
                   dropPercentage |-> Pct(100, 1)]]

\* a drop of exactly 80 percent counted as critical
DropSeverityInclusive(prevEnergy, currEnergy) ==
    IF (prevEnergy - currEnergy) * 100 >= 80 * prevEnergy THEN "CRITICAL" ELSE "WARNING"

\* dropPercent > 80 ? "CRITICAL" : "WARNING", with prevEnergy > 0
DropSeverity(prevEnergy, currEnergy) ==
    IF (prevEnergy - currEnergy) * 100 > 80 * prevEnergy THEN "CRITICAL" ELSE "WARNING"

\* the drop rule leaving the days without production to the zero rule
DropRuleNonZero(prevEnergy, currEnergy, n, total) ==
    /\ currEnergy # 0
    /\ prevEnergy > 0 /\ currEnergy * 10 < 3 * prevEnergy /\ currEnergy * 2 * n < total

\* prevEnergy > 0 && currEnergy < prevEnergy * 0.3 && currEnergy < avgProduction * 0.5
DropRule(prevEnergy, currEnergy, n, total) ==
    prevEnergy > 0 /\ currEnergy * 10 < 3 * prevEnergy /\ currEnergy * 2 * n < total

RECURSIVE MechanicalFrom(_, _, _)
\* the loop for (let i = 1; i < records.length; i++), with i one-based here
MechanicalFrom(records, i, total) ==
    IF i > Len(records) THEN <<>>
    ELSE
      LET n == Len(records)
          prevEnergy == records[i - 1]
          currEnergy == records[i]
          found ==
            IF currEnergy = 0 /\ prevEnergy * 10 * n > 3 * total
            THEN << ZeroFinding(i, prevEnergy, currEnergy) >>
            ELSE IF DropRule(prevEnergy, currEnergy, n, total)
            THEN << [anomalyType |-> "MECHANICAL",
                     severity |-> DropSeverity(prevEnergy, currEnergy),
                     affectedStartDate |-> i,
                     affectedEndDate |-> i,
                     metadata |-> [previousEnergy |-> prevEnergy,
                                   currentEnergy |-> currEnergy,
                                   dropPercentage |->
                                     Pct((prevEnergy - currEnergy) * 100, prevEnergy)]] >>
            ELSE <<>>
      IN found \o MechanicalFrom(records, i + 1, total)

detectMechanicalAnomalies(records) ==
    IF Len(records) < MechanicalMinHistory THEN <<>>
    ELSE MechanicalFrom(Energies(records), 2, Sum(Energies(records)))

\* the whole series taken as the recent window
TemperatureWindowAll == 7 + 7

\* records.slice(-7): the days averaged by the temperature detector
TemperatureWindow == 7

\* solarUnit is the result of SolarUnit.findById: Null or a unit document
detectTemperatureFindings(records, solarUnit) ==
    IF solarUnit = Null THEN <<>>
    ELSE
      LET capacity == solarUnit.capacity
          expectedDailyEnergy == capacity * 8
          recentRecords == LastK(Energies(records), TemperatureWindow)
          first == Len(records) - Len(recentRecords) + 1
          k == Len(recentRecords)
          sumRecent == Sum(recentRecords)
      IN \* avgRecent < expectedDaily * 0.6 /\ avgRecent > 0
         IF sumRecent * 10 < 6 * expectedDailyEnergy * k /\ sumRecent > 0
         THEN << [anomalyType |-> "TEMPERATURE",
                  severity |-> IF sumRecent * 100 < 40 * expectedDailyEnergy * k
                               THEN "WARNING" ELSE "INFO",
                  affectedStartDate |-> first,
                  affectedEndDate |-> Len(records),
                  metadata |-> [averageProduction |-> Pct(sumRecent, k),
                                expectedProduction |-> expectedDailyEnergy,
                                efficiencyPercent |->
                                  Pct(sumRecent * 100, expectedDailyEnergy * k),
                                daysAnalyzed |-> k]] >>
         ELSE <<>>

\* TRUE when the detector reaches its SolarUnit.findById
TemperatureNeedsUnit(records) == ~(Len(records) < TemperatureMinHistory)

detectTemperatureAnomalies(records, solarUnit) ==
    IF ~TemperatureNeedsUnit(records) THEN <<>>
    ELSE detectTemperatureFindings(records, solarUnit)

\* two low-production days taken as enough
ShadingMinLowDaysTwo == 3 - 1

\* lowProductionDays.length >= 3
ShadingMinLowDays == 3

detectShadingAnomalies(records) ==
    IF Len(records) < ShadingMinHistory THEN <<>>
    ELSE
      LET n == Len(records)
          sortedByEnergy == SortDesc(Energies(records))
          top3Sum == Sum(FirstK(sortedByEnergy, 3))
          total == Sum(sortedByEnergy)
          low == {i \in 1..n : records[i] * 4 < top3Sum}
          lowFirst == CHOOSE i \in low : \A j \in low : i <= j
          lowLast == CHOOSE i \in low : \A j \in low : j <= i
      IN \* top3Avg > 0 /\ overallAvg < top3Avg * 0.7
         IF top3Sum > 0 /\ total * 30 < 7 * n * top3Sum
            /\ Cardinality(low) >= ShadingMinLowDays
         THEN << [anomalyType |-> "SHADING",
                  severity |-> IF (n * top3Sum - 3 * total) * 100 > 40 * n * top3Sum
                               THEN "WARNING" ELSE "INFO",
                  affectedStartDate |-> lowFirst,
                  affectedEndDate |-> lowLast,
                  metadata |-> [peakProduction |-> Pct(top3Sum, 3),
                                averageProduction |-> Pct(total, n),
                                reductionPercent |->
                                  Pct((n * top3Sum - 3 * total) * 100, n * top3Sum),
                                affectedDays |-> Cardinality(low)]] >>
         ELSE <<>>

\* the maximum test with the bound itself counted as exceeding
ExceedsMaximumInclusive(energy, maxPossibleDailyEnergy) ==
    energy * 10 >= maxPossibleDailyEnergy * 12

\* energy > maxPossibleDailyEnergy * 1.2
ExceedsMaximum(energy, maxPossibleDailyEnergy) ==
    energy * 10 > maxPossibleDailyEnergy * 12

RECURSIVE SensorBoundsFrom(_, _, _)
\* first pass: impossible values, for (const record of records)
SensorBoundsFrom(records, i, maxPossibleDailyEnergy) ==
    IF i > Len(records) THEN <<>>
    ELSE
      LET energy == records[i]
          found ==
            IF energy < 0
            THEN << [anomalyType |-> "SENSOR_ERROR",
                     severity |-> "CRITICAL",
                     affectedStartDate |-> i,
                     affectedEndDate |-> i,
                     metadata |-> [invalidValue |-> energy,
                                   errorType |-> "NEGATIVE_VALUE"]] >>
            ELSE IF ExceedsMaximum(energy, maxPossibleDailyEnergy)
            THEN << [anomalyType |-> "SENSOR_ERROR",
                     severity |-> "CRITICAL",
                     affectedStartDate |-> i,
                     affectedEndDate |-> i,
                     description |->
                       [overshootPercent |->
                          Pct((energy - maxPossibleDailyEnergy) * 100, maxPossibleDailyEnergy)],
                     metadata |-> [invalidValue |-> energy,
                                   theoreticalMax |-> maxPossibleDailyEnergy,
                                   errorType |-> "EXCEEDS_MAXIMUM"]] >>
            ELSE <<>>
      IN found \o SensorBoundsFrom(records, i + 1, maxPossibleDailyEnergy)

RECURSIVE SensorOutliersFrom(_, _, _, _)
\* second pass: IQR outliers; twice the bounds are passed to stay in the integers
SensorOutliersFrom(records, i, lower2, upper2) ==
    IF i > Len(records) THEN <<>>
    ELSE
      LET energy == records[i]
          found ==
            IF 2 * energy < lower2 \/ 2 * energy > upper2
            THEN << [anomalyType |-> "SENSOR_ERROR",
                     severity |-> "WARNING",
                     affectedStartDate |-> i,
                     affectedEndDate |-> i,
                     metadata |-> [outlierValue |-> energy,
                                   expectedRange |-> [lower |-> Pct(lower2, 2),
                                                      upper |-> Pct(upper2, 2)],
                                   errorType |-> "STATISTICAL_OUTLIER"]] >>
            ELSE <<>>
      IN found \o SensorOutliersFrom(records, i + 1, lower2, upper2)

\* both quartiles taken at the median position
QuartileIndexMedian(n, percent) == n \div 2

\* Math.floor(n * 0.25), Math.floor(n * 0.75): zero-based position in the sorted totals
QuartileIndex(n, percent) == (n * percent) \div 100

detectSensorFindings(records, solarUnit) ==
    IF solarUnit = Null THEN <<>>
    ELSE
      LET capacity == solarUnit.capacity
          maxPossibleDailyEnergy == capacity * 10
          energies == SortAsc(Energies(records))
          n == Len(energies)
          \* Math.floor(n * 0.25), Math.floor(n * 0.75), zero-based
          q1 == energies[QuartileIndex(n, 25) + 1]
          q3 == energies[QuartileIndex(n, 75) + 1]
          iqr == q3 - q1
          lower2 == 2 * q1 - 3 * iqr
          upper2 == 2 * q3 + 3 * iqr
      IN SensorBoundsFrom(Energies(records), 1, maxPossibleDailyEnergy)
           \o SensorOutliersFrom(Energies(records), 1, lower2, upper2)

\* TRUE when the detector reaches its SolarUnit.findById
SensorNeedsUnit(records) == ~(Len(records) < SensorMinHistory)

detectSensorErrors(records, solarUnit) ==
    IF ~SensorNeedsUnit(records) THEN <<>>
    ELSE detectSensorFindings(records, solarUnit)

\* ------------------------------------------------------------------- state

Units == <<"u1", "u2">>
UnitIds == {Units[i] : i \in 1..Len(Units)}
NoUnit == "none"

\* the two callers of detectAllAnomalies that can be active at once: the
\* scheduled batch job and an on-demand request (sync middleware)
Callers == {"batch", "sync"}

VARIABLES
    energyRecords,  \* [UnitIds -> daily aggregate series] as the $group pipeline yields it
    solarUnits,     \* [UnitIds -> Null or the SolarUnit document]
    anomalies,      \* the Anomaly collection, in insertion order
    run,            \* [Callers -> activation of detectAllAnomalies]
    batch,          \* activation of runAnomalyDetection
    resolves,       \* number of resolveAnomaly requests served
    clean,          \* [UnitIds -> the last run for the unit completed, nothing resolved since]
    probe,          \* input of a single detector call
    probeOut,       \* result of that call
    now,            \* the clock read by new Date(), in instants
    readings,       \* [UnitIds -> instants at which the data API has a reading of the unit]
    invoices,       \* the Invoice collection, in insertion order; an _id is a position
    gen,            \* activation of generateInvoices
    hook            \* activation of handleStripeWebhook

\* the state of billing, left alone by anomaly detection
billingVars == <<now, readings, invoices, gen, hook>>

\* the state of anomaly detection, left alone by billing
detectionVars ==
    <<energyRecords, solarUnits, anomalies, run, batch, resolves, clean, probe, probeOut>>

vars == <<energyRecords, solarUnits, anomalies, run, batch, resolves, clean, probe, probeOut,
          now, readings, invoices, gen, hook>>

\* ------------------------------------------------------------- repository

\* the lookup with the severity taken into the key
AnomalyFindOneSameSeverity(repo, solarUnitId, anomaly) ==
    LET hits == {k \in 1..Len(repo) :
                    /\ repo[k].solarUnitId = solarUnitId
                    /\ repo[k].anomalyType = anomaly.anomalyType
                    /\ repo[k].affectedStartDate = anomaly.affectedStartDate
                    /\ repo[k].severity = anomaly.severity
                    /\ repo[k].resolved = FALSE}
    IN IF hits = {} THEN Null ELSE repo[CHOOSE k \in hits : \A j \in hits : k <= j]

\* the lookup without the start date
AnomalyFindOneOfType(repo, solarUnitId, anomaly) ==
    LET hits == {k \in 1..Len(repo) :
                    /\ repo[k].solarUnitId = solarUnitId
                    /\ repo[k].anomalyType = anomaly.anomalyType
                    /\ repo[k].resolved = FALSE}
    IN IF hits = {} THEN Null ELSE repo[CHOOSE k \in hits : \A j \in hits : k <= j]

\* the lookup without the resolved filter
AnomalyFindOneAnyState(repo, solarUnitId, anomaly) ==
    LET hits == {k \in 1..Len(repo) :
                    /\ repo[k].solarUnitId = solarUnitId
                    /\ repo[k].anomalyType = anomaly.anomalyType
                    /\ repo[k].affectedStartDate = anomaly.affectedStartDate}
    IN IF hits = {} THEN Null ELSE repo[CHOOSE k \in hits : \A j \in hits : k <= j]

\* the lookup with the resolved flag inverted
AnomalyFindOneResolved(repo, solarUnitId, anomaly) ==
    LET hits == {k \in 1..Len(repo) :
                    /\ repo[k].solarUnitId = solarUnitId
                    /\ repo[k].anomalyType = anomaly.anomalyType
                    /\ repo[k].affectedStartDate = anomaly.affectedStartDate
                    /\ repo[k].resolved = TRUE}
    IN IF hits = {} THEN Null ELSE repo[CHOOSE k \in hits : \A j \in hits : k <= j]

\* Anomaly.findOne({solarUnitId, anomalyType, affectedStartDate, resolved: false})
AnomalyFindOne(repo, solarUnitId, anomaly) ==
    LET hits == {k \in 1..Len(repo) :
                    /\ repo[k].solarUnitId = solarUnitId
                    /\ repo[k].anomalyType = anomaly.anomalyType
                    /\ repo[k].affectedStartDate = anomaly.affectedStartDate
                    /\ repo[k].resolved = FALSE}
    IN IF hits = {} THEN Null ELSE repo[CHOOSE k \in hits : \A j \in hits : k <= j]

\* the stored start date shifted by a day
AnomalyDocumentShifted(solarUnitId, anomaly) ==
    [solarUnitId |-> solarUnitId,
     anomalyType |-> anomaly.anomalyType,
     severity |-> anomaly.severity,
     affectedStartDate |-> anomaly.affectedStartDate + 1,
     affectedEndDate |-> anomaly.affectedEndDate,
     metadata |-> anomaly.metadata,
     resolved |-> FALSE,
     resolvedAt |-> 0]

\* the document stored with a resolution time although it is unresolved
AnomalyDocumentStamped(solarUnitId, anomaly) ==
    [solarUnitId |-> solarUnitId,
     anomalyType |-> anomaly.anomalyType,
     severity |-> anomaly.severity,
     affectedStartDate |-> anomaly.affectedStartDate,
     affectedEndDate |-> anomaly.affectedEndDate,
     metadata |-> anomaly.metadata,
     resolved |-> FALSE,
     resolvedAt |-> 1]

\* the document stored with the schema default of metadata, an empty object
AnomalyDocumentDefaultMetadata(solarUnitId, anomaly) ==
    [solarUnitId |-> solarUnitId,
     anomalyType |-> anomaly.anomalyType,
     severity |-> anomaly.severity,
     affectedStartDate |-> anomaly.affectedStartDate,
     affectedEndDate |-> anomaly.affectedEndDate,
     metadata |-> [x \in {} |-> 0],
     resolved |-> FALSE,
     resolvedAt |-> 0]

\* the document Anomaly.create({solarUnitId, ...anomaly}) stores, schema defaults applied
AnomalyDocument(solarUnitId, anomaly) ==
    [solarUnitId |-> solarUnitId,
     anomalyType |-> anomaly.anomalyType,
     severity |-> anomaly.severity,
     affectedStartDate |-> anomaly.affectedStartDate,
     affectedEndDate |-> anomaly.affectedEndDate,
     metadata |-> anomaly.metadata,
     resolved |-> FALSE,
     resolvedAt |-> 0]

\* a create that re-checks the key when it writes
AnomalyCreateIfAbsent(repo, solarUnitId, anomaly) ==
    IF \E k \in 1..Len(repo) :
          /\ repo[k].solarUnitId = solarUnitId
          /\ repo[k].anomalyType = anomaly.anomalyType
          /\ repo[k].affectedStartDate = anomaly.affectedStartDate
          /\ repo[k].resolved = FALSE
    THEN repo
    ELSE Append(repo, AnomalyDocument(solarUnitId, anomaly))

\* a create that replaces the resolved documents of the key
AnomalyCreateReplacing(repo, solarUnitId, anomaly) ==
    Append(SelectSeq(repo, LAMBDA a : ~(/\ a.solarUnitId = solarUnitId
                                        /\ a.anomalyType = anomaly.anomalyType
                                        /\ a.affectedStartDate = anomaly.affectedStartDate)),
           AnomalyDocument(solarUnitId, anomaly))

\* Anomaly.create({solarUnitId, ...anomaly})
AnomalyCreate(repo, solarUnitId, anomaly) ==
    Append(repo, AnomalyDocument(solarUnitId, anomaly))

\* ---------------------------------------------------- detectAllAnomalies

Void == [kind |-> "void"]

IdleRun ==
    [pc |-> "idle", unit |-> NoUnit, records |-> <<>>, pending |-> {},
     mechanicalAnomalies |-> <<>>, temperatureAnomalies |-> <<>>,
     shadingAnomalies |-> <<>>, sensorErrors |-> <<>>,
     allAnomalies |-> <<>>, i |-> 1, createdCount |-> 0, skippedCount |-> 0,
     errored |-> FALSE, escaped |-> FALSE, invoked |-> FALSE, emptySeries |-> FALSE,
     aggregated |-> FALSE, finds |-> 0, unavailable |-> FALSE, log |-> Null,
     ret |-> Null, before |-> <<>>, second |-> FALSE, tainted |-> FALSE,
     completed |-> <<>>]

Active(rr) == rr.pc \notin {"idle", "done"}

\* detectAllAnomalies(solarUnitId) up to its first await (the aggregate query)
CallDetect(solarUnitId) ==
    [IdleRun EXCEPT !.pc = "aggregate", !.unit = solarUnitId,
                    !.before = anomalies, !.second = clean[solarUnitId]]

\* a catch block that rethrows
CatchRethrows == "rethrown"

\* what the catch block of detectAllAnomalies does with the error
CatchOutcome == "logged"

\* the emptiness test never true
IsEmptySeriesNever(records) == Len(records) < 0

\* records.length === 0
IsEmptySeries(records) == Len(records) = 0

\* the catch block: console.error, then the function returns undefined
Caught(rr) ==
    [rr EXCEPT !.pc = "done", !.errored = TRUE,
               !.escaped = (CatchOutcome # "logged"), !.ret = Void]

\* the loop with a completion log that leaves out the duplicates
ContinueLoggingNoSkips(rr) ==
    IF rr.i > Len(rr.allAnomalies)
    THEN [rr EXCEPT !.pc = "done", !.ret = Void,
                    !.log = [created |-> rr.createdCount,
                             skipped |-> 0,
                             detected |-> Len(rr.allAnomalies)]]
    ELSE [rr EXCEPT !.pc = "findOne"]

\* the for loop over allAnomalies, up to the next await or the completion log
Continue(rr) ==
    IF rr.i > Len(rr.allAnomalies)
    THEN [rr EXCEPT !.pc = "done", !.ret = Void,
                    !.log = [created |-> rr.createdCount,
                             skipped |-> rr.skippedCount,
                             detected |-> Len(rr.allAnomalies)]]
    ELSE [rr EXCEPT !.pc = "findOne"]

\* the findings of one detector of the run
ResultOf(rr, detector) ==
    CASE detector = "mechanical" -> rr.mechanicalAnomalies
      [] detector = "temperature" -> rr.temperatureAnomalies
      [] detector = "shading" -> rr.shadingAnomalies
      [] detector = "sensor" -> rr.sensorErrors

RECURSIVE ConcatResults(_, _)
ConcatResults(rr, detectors) ==
    IF detectors = <<>> THEN <<>>
    ELSE ResultOf(rr, Head(detectors)) \o ConcatResults(rr, Tail(detectors))

\* the findings combined in the order in which the detectors returned
CombineAsCompleted(rr) ==
    Continue([rr EXCEPT !.pc = "persist", !.i = 1,
                        !.allAnomalies = ConcatResults(rr, rr.completed)])

\* Promise.all has resolved: combine in detector order and enter the loop
Combine(rr) ==
    Continue([rr EXCEPT !.pc = "persist", !.i = 1,
                        !.allAnomalies = rr.mechanicalAnomalies \o rr.temperatureAnomalies
                                           \o rr.shadingAnomalies \o rr.sensorErrors])

\* persistence started as soon as one detector has returned
AfterLookupEager(rr) == Combine(rr)

\* await Promise.all([...]): the run goes on when no detector is pending
AfterLookup(rr) == IF rr.pending = {} THEN Combine(rr) ELSE rr

\* history: a run that ended decides whether the next one is a repeat run
CleanAfter(rr) ==
    IF rr.pc = "done"
    THEN [clean EXCEPT ![rr.unit] = ~rr.errored /\ ~rr.tainted]
    ELSE clean

Step(r, rr) ==
    /\ run' = [run EXCEPT ![r] = rr]
    /\ clean' = CleanAfter(rr)

\* the detectors that return without awaiting a profile read, in call order
ReturnedAtOnce(records) ==
    SelectSeq(<<"mechanical", "temperature", "shading", "sensor">>,
              LAMBDA d : /\ (d = "temperature" => ~TemperatureNeedsUnit(records))
                         /\ (d = "sensor" => ~SensorNeedsUnit(records)))

\* a sort applied to the shared series itself
RecordsSortedInPlace(records) == SortAsc(records)

\* the shared series after a detector sorted its totals: [...records].map(...).sort(...)
\* and records.map(...).sort(...) sort a fresh array, the series keeps its order
RecordsAfterSort(records) == records

\* the aggregate query resolves; the four detectors are started
Aggregate(r) ==
    /\ run[r].pc = "aggregate"
    /\ LET records == energyRecords[run[r].unit]
           rr0 == [run[r] EXCEPT !.records = records, !.aggregated = TRUE]
       IN IF IsEmptySeries(records)
          THEN Step(r, [rr0 EXCEPT !.pc = "done", !.emptySeries = TRUE, !.ret = Void])
          ELSE Step(r, AfterLookup(
                 [rr0 EXCEPT !.pc = "detect", !.invoked = TRUE,
                             !.mechanicalAnomalies = detectMechanicalAnomalies(records),
                             !.shadingAnomalies = detectShadingAnomalies(records),
                             !.records = RecordsAfterSort(records),
                             !.completed = ReturnedAtOnce(records),
                             !.pending =
                                (IF TemperatureNeedsUnit(records) THEN {"temperature"} ELSE {})
                                \cup (IF SensorNeedsUnit(records) THEN {"sensor"} ELSE {})]))
    /\ UNCHANGED <<energyRecords, solarUnits, anomalies, batch, resolves, probe, probeOut, billingVars>>

\* the aggregate query rejects
AggregateFails(r) ==
    /\ run[r].pc = "aggregate"
    /\ Step(r, Caught([run[r] EXCEPT !.unavailable = TRUE]))
    /\ UNCHANGED <<energyRecords, solarUnits, anomalies, batch, resolves, probe, probeOut, billingVars>>

\* SolarUnit.findById of detectTemperatureAnomalies resolves
TemperatureLookup(r) ==
    /\ run[r].pc = "detect"
    /\ "temperature" \in run[r].pending
    /\ LET solarUnit == solarUnits[run[r].unit]
       IN Step(r, AfterLookup(
            [run[r] EXCEPT !.pending = @ \ {"temperature"},
                           !.completed = Append(@, "temperature"),
                           !.unavailable = @ \/ solarUnit = Null,
                           !.temperatureAnomalies =
                               detectTemperatureFindings(run[r].records, solarUnit)]))
    /\ UNCHANGED <<energyRecords, solarUnits, anomalies, batch, resolves, probe, probeOut, billingVars>>

\* SolarUnit.findById of detectSensorErrors resolves
SensorLookup(r) ==
    /\ run[r].pc = "detect"
    /\ "sensor" \in run[r].pending
    /\ LET solarUnit == solarUnits[run[r].unit]
       IN Step(r, AfterLookup(
            [run[r] EXCEPT !.pending = @ \ {"sensor"},
                           !.records = RecordsAfterSort(@),
                           !.completed = Append(@, "sensor"),
                           !.unavailable = @ \/ solarUnit = Null,
                           !.sensorErrors =
                               detectSensorFindings(run[r].records, solarUnit)]))
    /\ UNCHANGED <<energyRecords, solarUnits, anomalies, batch, resolves, probe, probeOut, billingVars>>

\* a SolarUnit.findById rejects: Promise.all rejects, the catch block runs
LookupFails(r) ==
    /\ run[r].pc = "detect"
    /\ run[r].pending # {}
    /\ Step(r, Caught([run[r] EXCEPT !.unavailable = TRUE]))
    /\ UNCHANGED <<energyRecords, solarUnits, anomalies, batch, resolves, probe, probeOut, billingVars>>

\* Anomaly.findOne resolves for allAnomalies[i]
FindOne(r) ==
    /\ run[r].pc = "findOne"
    /\ LET rr == run[r]
           existing == AnomalyFindOne(anomalies, rr.unit, rr.allAnomalies[rr.i])
       IN IF existing = Null
          THEN Step(r, [rr EXCEPT !.pc = "create", !.finds = @ + 1])
          ELSE Step(r, Continue([rr EXCEPT !.finds = @ + 1, !.skippedCount = @ + 1,
                                           !.i = @ + 1]))
    /\ UNCHANGED <<energyRecords, solarUnits, anomalies, batch, resolves, probe, probeOut, billingVars>>

\* Anomaly.findOne rejects
FindOneFails(r) ==
    /\ run[r].pc = "findOne"
    /\ Step(r, Caught([run[r] EXCEPT !.finds = @ + 1]))
    /\ UNCHANGED <<energyRecords, solarUnits, anomalies, batch, resolves, probe, probeOut, billingVars>>

\* Anomaly.create resolves for allAnomalies[i]
Create(r) ==
    /\ run[r].pc = "create"
    /\ LET rr == run[r]
       IN /\ anomalies' = AnomalyCreate(anomalies, rr.unit, rr.allAnomalies[rr.i])
          /\ Step(r, Continue([rr EXCEPT !.createdCount = @ + 1, !.i = @ + 1]))
    /\ UNCHANGED <<energyRecords, solarUnits, batch, resolves, probe, probeOut, billingVars>>

\* Anomaly.create rejects
CreateFails(r) ==
    /\ run[r].pc = "create"
    /\ Step(r, Caught(run[r]))
    /\ UNCHANGED <<energyRecords, solarUnits, anomalies, batch, resolves, probe, probeOut, billingVars>>

\* ------------------------------------------------------------ the callers

IdleBatch == [pc |-> "idle", solarUnits |-> <<>>, k |-> 0, called |-> <<>>,
              failures |-> 0, aborted |-> FALSE]

\* SolarUnit.find({ status: "ACTIVE" })
ActiveUnits == SelectSeq(Units, LAMBDA u : solarUnits[u] # Null /\ solarUnits[u].status = "ACTIVE")

\* runAnomalyDetection is triggered (scheduler) and issues SolarUnit.find
BatchStart ==
    /\ batch.pc \in {"idle", "done"}
    /\ batch' = [IdleBatch EXCEPT !.pc = "find"]
    /\ run' = [run EXCEPT !["batch"] = IdleRun]
    /\ UNCHANGED <<energyRecords, solarUnits, anomalies, resolves, clean, probe, probeOut, billingVars>>

\* SolarUnit.find resolves
BatchFind ==
    /\ batch.pc = "find"
    /\ batch' = [batch EXCEPT !.pc = "loop", !.solarUnits = ActiveUnits]
    /\ UNCHANGED <<energyRecords, solarUnits, anomalies, run, resolves, clean, probe, probeOut, billingVars>>

\* SolarUnit.find rejects: the catch block of runAnomalyDetection
BatchFindFails ==
    /\ batch.pc = "find"
    /\ batch' = [batch EXCEPT !.pc = "done", !.aborted = TRUE]
    /\ UNCHANGED <<energyRecords, solarUnits, anomalies, run, resolves, clean, probe, probeOut, billingVars>>

\* for (const solarUnit of solarUnits) await detectAllAnomalies(...): the previous
\* call has returned (or thrown), the next one is made or the job ends
BatchNext ==
    /\ batch.pc = "loop"
    /\ ~Active(run["batch"])
    /\ LET failed == batch.k > 0 /\ run["batch"].errored
           b == [batch EXCEPT !.failures = @ + (IF failed THEN 1 ELSE 0)]
       IN IF batch.k > 0 /\ run["batch"].escaped
          THEN /\ batch' = [b EXCEPT !.pc = "done", !.aborted = TRUE]
               /\ run' = run
          ELSE IF batch.k < Len(batch.solarUnits)
          THEN LET u == batch.solarUnits[batch.k + 1]
               IN /\ batch' = [b EXCEPT !.k = @ + 1, !.called = Append(@, u)]
                  /\ run' = [run EXCEPT !["batch"] = CallDetect(u)]
          ELSE /\ batch' = [b EXCEPT !.pc = "done"]
               /\ run' = run
    /\ UNCHANGED <<energyRecords, solarUnits, anomalies, resolves, clean, probe, probeOut, billingVars>>

\* syncMiddleware (or runAnomalyDetectionForUser) calls detectAllAnomalies for a unit
OnDemand(solarUnitId) ==
    /\ ~Active(run["sync"])
    /\ run' = [run EXCEPT !["sync"] = CallDetect(solarUnitId)]
    /\ UNCHANGED <<energyRecords, solarUnits, anomalies, batch, resolves, clean, probe, probeOut, billingVars>>

\* resolveAnomaly for the k-th document: resolved = true, resolvedAt = now, save
ResolveAnomaly(k) ==
    /\ resolves < MaxResolves
    /\ k \in 1..Len(anomalies)
    /\ resolves' = resolves + 1
    /\ anomalies' = [anomalies EXCEPT ![k].resolved = TRUE, ![k].resolvedAt = resolves + 1]
    /\ LET u == anomalies[k].solarUnitId
       IN /\ clean' = [clean EXCEPT ![u] = FALSE]
          /\ run' = [r \in Callers |->
                       IF run[r].unit = u
                       THEN [run[r] EXCEPT !.tainted = TRUE, !.second = FALSE]
                       ELSE run[r]]
    /\ UNCHANGED <<energyRecords, solarUnits, batch, probe, probeOut, billingVars>>

\* syncMiddleware inserts the readings newer than the last synced one: the unit's
\* series gets one more daily aggregate, after all the days it had
InsertDay(u, energy) ==
    /\ 7 <= Len(energyRecords[u])
    /\ Len(energyRecords[u]) < 7 + MaxSyncedDays
    /\ energyRecords' = [energyRecords EXCEPT ![u] = Append(@, energy)]
    /\ clean' = [clean EXCEPT ![u] = FALSE]
    /\ run' = [r \in Callers |->
                 IF run[r].unit = u THEN [run[r] EXCEPT !.second = FALSE] ELSE run[r]]
    /\ UNCHANGED <<solarUnits, anomalies, batch, resolves, probe, probeOut, billingVars>>

\* deleteSolarUnit: SolarUnit.findByIdAndDelete; its energy records and anomalies stay
DeleteSolarUnit(u) ==
    /\ solarUnits[u] # Null
    /\ solarUnits' = [solarUnits EXCEPT ![u] = Null]
    /\ UNCHANGED <<energyRecords, anomalies, run, batch, resolves, clean, probe, probeOut, billingVars>>

\* ----------------------------------------------------------------- billing

\* Instants in a calendar month: the first is the 1st at 00:00:00.000, the last is
\* the last day at 23:59:59.999, the others lie inside the month.
InstantsPerMonth == 3

\* Calendar months the clock runs through.
MaxMonths == 3

\* Last instant the clock reaches.
MaxNow == MaxMonths * InstantsPerMonth - 1

Instants == 0..MaxNow

\* new Date(y, m, 1) of the month holding instant t
MonthStart(t) == (t \div InstantsPerMonth) * InstantsPerMonth

\* new Date(y, m + 1, 1): the first instant of the following month
NextMonthStart(t) == MonthStart(t) + InstantsPerMonth

\* new Date(y, m + 1, 0, 23, 59, 59, 999): the last instant of the month holding t
MonthEnd(t) == MonthStart(t) + InstantsPerMonth - 1

\* the User collection, and the user ids a solar unit can carry
Users == {"alice"}
NoUser == "none"
UserIds == {NoUser, "alice", "ghost"}

NoDate == 0 - 1

IdleGen == [pc |-> "idle", activeSolarUnits |-> <<>>, k |-> 0, now |-> 0,
            currentPeriodStart |-> 0, totalEnergyGenerated |-> 0,
            created |-> 0, thrown |-> FALSE]

\* the requests of the webhook route that can be in progress together
Handlers == {"h1", "h2"}

IdleHook == [pc |-> "idle", verified |-> FALSE, invoiceId |-> 0, paidAt |-> NoDate,
             status |-> 0, body |-> "none"]

\* nothing of billing is running and nothing is stored
BillingIdle ==
    /\ now = 0
    /\ readings = [u \in UnitIds |-> {}]
    /\ invoices = <<>>
    /\ gen = IdleGen
    /\ hook = [h \in Handlers |-> IdleHook]

\* the lookup that compares the period end with the period start
InvoiceFindOneByStartAsEnd(repo, solarUnitId, periodStart, periodEnd) ==
    LET hits == {i \in 1..Len(repo) : /\ repo[i].solarUnitId = solarUnitId
                                      /\ repo[i].billingPeriodStart = periodStart
                                      /\ repo[i].billingPeriodEnd = periodStart}
    IN IF hits = {} THEN Null ELSE repo[CHOOSE i \in hits : \A j \in hits : i <= j]

\* Invoice.findOne({solarUnitId, billingPeriodStart, billingPeriodEnd})
InvoiceFindOne(repo, solarUnitId, periodStart, periodEnd) ==
    LET hits == {i \in 1..Len(repo) : /\ repo[i].solarUnitId = solarUnitId
                                      /\ repo[i].billingPeriodStart = periodStart
                                      /\ repo[i].billingPeriodEnd = periodEnd}
    IN IF hits = {} THEN Null ELSE repo[CHOOSE i \in hits : \A j \in hits : i <= j]

\* EnergyGenerationRecord.find({solarUnitId, timestamp: {$gte, $lte}}) summed; every
\* reading stored so far carries one unit of energy
EnergyBetween(solarUnitId, periodStart, periodEnd) ==
    Cardinality({t \in readings[solarUnitId] :
                    periodStart <= t /\ t <= periodEnd /\ t <= now})

\* the document Invoice.create stores; the total is a whole number of units, which
\* Math.round(total * 100) / 100 leaves as it is
InvoiceDocument(solarUnitId, userId, periodStart, periodEnd, total) ==
    [solarUnitId |-> solarUnitId,
     userId |-> userId,
     billingPeriodStart |-> periodStart,
     billingPeriodEnd |-> periodEnd,
     totalEnergyGenerated |-> total,
     paymentStatus |-> "PENDING",
     paidAt |-> NoDate,
     createdAt |-> now]

\* while (currentPeriodStart < now)
PeriodOpen(g) == g.currentPeriodStart < g.now

\* the end of the for body: the next solar unit
GenNextUnit(g) == [g EXCEPT !.pc = "unit", !.k = @ + 1]

\* the head of the while loop
GenLoop(g) == IF PeriodOpen(g) THEN [g EXCEPT !.pc = "findOne"] ELSE GenNextUnit(g)

\* currentPeriodStart = new Date(y, m + 1, 1), then the loop head
GenNextMonth(g) ==
    GenLoop([g EXCEPT !.currentPeriodStart = NextMonthStart(g.currentPeriodStart)])

\* the scheduler calls generateInvoices, which issues SolarUnit.find
GenStart ==
    /\ gen.pc \in {"idle", "done"}
    /\ gen' = [IdleGen EXCEPT !.pc = "find"]
    /\ UNCHANGED <<detectionVars, now, readings, invoices, hook>>

\* SolarUnit.find({ status: "ACTIVE" }) resolves
GenFind ==
    /\ gen.pc = "find"
    /\ gen' = [gen EXCEPT !.pc = "unit", !.k = 1, !.activeSolarUnits = ActiveUnits]
    /\ UNCHANGED <<detectionVars, now, readings, invoices, hook>>

\* the for loop reaches a unit: without a user it is skipped, else User.findById is issued
GenUnit ==
    /\ gen.pc = "unit"
    /\ gen' = IF gen.k > Len(gen.activeSolarUnits)
               THEN [gen EXCEPT !.pc = "done"]
               ELSE IF solarUnits[gen.activeSolarUnits[gen.k]].userId = NoUser
               THEN GenNextUnit(gen)
               ELSE [gen EXCEPT !.pc = "user"]
    /\ UNCHANGED <<detectionVars, now, readings, invoices, hook>>

\* User.findById resolves; now and the first period are computed
GenUser ==
    /\ gen.pc = "user"
    /\ LET solarUnit == solarUnits[gen.activeSolarUnits[gen.k]]
       IN gen' = IF solarUnit.userId \notin Users
                  THEN GenNextUnit(gen)
                  ELSE GenLoop([gen EXCEPT
                                  !.now = now,
                                  !.currentPeriodStart =
                                      NextMonthStart(solarUnit.installationDate)])
    /\ UNCHANGED <<detectionVars, now, readings, invoices, hook>>

\* Invoice.findOne resolves
GenFindOne ==
    /\ gen.pc = "findOne"
    /\ LET existingInvoice ==
             InvoiceFindOne(invoices, gen.activeSolarUnits[gen.k],
                            gen.currentPeriodStart, MonthEnd(gen.currentPeriodStart))
       IN gen' = IF existingInvoice # Null
                  THEN GenNextMonth(gen)
                  ELSE [gen EXCEPT !.pc = "sum"]
    /\ UNCHANGED <<detectionVars, now, readings, invoices, hook>>

\* EnergyGenerationRecord.find resolves and the energy of the period is summed
GenSum ==
    /\ gen.pc = "sum"
    /\ LET total == EnergyBetween(gen.activeSolarUnits[gen.k], gen.currentPeriodStart,
                                  MonthEnd(gen.currentPeriodStart))
       IN gen' = IF total > 0
                  THEN [gen EXCEPT !.pc = "create", !.totalEnergyGenerated = total]
                  ELSE GenNextMonth(gen)
    /\ UNCHANGED <<detectionVars, now, readings, invoices, hook>>

\* Invoice.create resolves
GenCreate ==
    /\ gen.pc = "create"
    /\ LET u == gen.activeSolarUnits[gen.k]
       IN invoices' = Append(invoices,
                             InvoiceDocument(u, solarUnits[u].userId, gen.currentPeriodStart,
                                             MonthEnd(gen.currentPeriodStart),
                                             gen.totalEnergyGenerated))
    /\ gen' = GenNextMonth([gen EXCEPT !.created = @ + 1])
    /\ UNCHANGED <<detectionVars, now, readings, hook>>

\* an await of generateInvoices rejects: the catch block logs and rethrows
GenFails ==
    /\ gen.pc \in {"find", "user", "findOne", "sum", "create"}
    /\ gen' = [gen EXCEPT !.pc = "done", !.thrown = TRUE]
    /\ UNCHANGED <<detectionVars, now, readings, invoices, hook>>

\* the _id of an invoice is its position in the collection; 0 is a session without
\* metadata.invoiceId, and MissingInvoiceId is the id of no document
NoInvoiceId == 0
MissingInvoiceId == 0 - 2

EventTypes == {"checkout.session.completed", "checkout.session.async_payment_succeeded",
               "checkout.session.expired"}

PaymentStatuses == {"paid", "unpaid"}

\* Invoice.findById
InvoiceFindById(repo, invoiceId) ==
    IF invoiceId \in 1..Len(repo) THEN repo[invoiceId] ELSE Null

\* invoice.paymentStatus !== "PAID"
NeedsUpdate(invoice) == invoice.paymentStatus # "PAID"

\* res.status(code) with a body: the request is answered
Answer(code, verified, body) ==
    [IdleHook EXCEPT !.pc = "answered", !.status = code, !.verified = verified,
                     !.body = body]

\* the route receives a request and handleStripeWebhook runs up to its first await:
\* a request whose signature constructEvent rejects is answered 400; a session without
\* invoiceId, a completed session that is not paid and any other event type are
\* answered 200; otherwise Invoice.findById is issued
Deliver(h, signed, type, invoiceId, payment_status) ==
    /\ hook[h].pc \in {"idle", "answered"}
    /\ hook' = [hook EXCEPT ![h] =
         IF ~signed THEN Answer(400, FALSE, "Webhook Error")
         ELSE IF type = "checkout.session.completed"
         THEN IF invoiceId = NoInvoiceId THEN Answer(200, TRUE, "warning")
              ELSE IF payment_status = "paid"
              THEN [IdleHook EXCEPT !.pc = "find", !.verified = TRUE, !.invoiceId = invoiceId]
              ELSE Answer(200, TRUE, "received")
         ELSE IF type = "checkout.session.async_payment_succeeded"
         THEN IF invoiceId = NoInvoiceId THEN Answer(200, TRUE, "warning")
              ELSE [IdleHook EXCEPT !.pc = "find", !.verified = TRUE, !.invoiceId = invoiceId]
         ELSE Answer(200, TRUE, "received")]
    /\ UNCHANGED <<detectionVars, now, readings, invoices, gen>>

\* Invoice.findById resolves: an unknown or already paid invoice is answered 200,
\* otherwise findByIdAndUpdate is issued with paidAt: new Date()
HookFind(h) ==
    /\ hook[h].pc = "find"
    /\ LET invoice == InvoiceFindById(invoices, hook[h].invoiceId)
       IN hook' = [hook EXCEPT ![h] =
            IF invoice = Null THEN Answer(200, TRUE, "error: not found")
            ELSE IF NeedsUpdate(invoice)
            THEN [@ EXCEPT !.pc = "update", !.paidAt = now]
            ELSE Answer(200, TRUE, "received")]
    /\ UNCHANGED <<detectionVars, now, readings, invoices, gen>>

\* Invoice.findByIdAndUpdate(invoiceId, {paymentStatus: "PAID", paidAt}) resolves
HookUpdate(h) ==
    /\ hook[h].pc = "update"
    /\ invoices' = [invoices EXCEPT ![hook[h].invoiceId] =
                       [@ EXCEPT !.paymentStatus = "PAID", !.paidAt = hook[h].paidAt]]
    /\ hook' = [hook EXCEPT ![h] = Answer(200, TRUE, "received")]
    /\ UNCHANGED <<detectionVars, now, readings, gen>>

\* an await of the handler rejects: the catch block answers 200 with the error
HookFails(h) ==
    /\ hook[h].pc \in {"find", "update"}
    /\ hook' = [hook EXCEPT ![h] = Answer(200, TRUE, "error")]
    /\ UNCHANGED <<detectionVars, now, readings, invoices, gen>>

\* time passes
Tick ==
    /\ now < MaxNow
    /\ now' = now + 1
    /\ UNCHANGED <<detectionVars, readings, invoices, gen, hook>>

\* --------------------------------------------------------- specifications

SeqsUpTo(S, n) == UNION {[1..k -> S] : k \in 0..n}

OrchestratorEnergies == {-5, 10}
Capacities == {1}
Statuses == {"ACTIVE", "INACTIVE"}

NoProbe == [records |-> <<>>, solarUnit |-> Null]
NoProbeOut == [detector |-> "none", findings |-> <<>>]

\* a week of low production of the first unit, ending in a normal or a negative reading
LowProductionWeeks == {[i \in 1..7 |-> IF i = 7 THEN last ELSE 3] : last \in {3, -5}}

\* every distribution of at most MaxDays days over the units, and the low weeks
StoredSeries ==
    {f \in [UnitIds -> SeqsUpTo(OrchestratorEnergies, MaxDays)] :
        Sum([i \in 1..Len(Units) |-> Len(f[Units[i]])]) <= MaxDays}
    \cup {[u \in UnitIds |-> IF u = Units[1] THEN w ELSE <<>>] : w \in LowProductionWeeks}

Init ==
    /\ energyRecords \in StoredSeries
    /\ solarUnits \in [UnitIds -> [capacity : Capacities, status : Statuses]]
    /\ anomalies = <<>>
    /\ run = [r \in Callers |-> IdleRun]
    /\ batch = IdleBatch
    /\ resolves = 0
    /\ clean = [u \in UnitIds |-> FALSE]
    /\ probe = NoProbe
    /\ probeOut = NoProbeOut
    /\ BillingIdle

\* an await of the run resolves
Settles(r) ==
    \/ Aggregate(r)
    \/ TemperatureLookup(r)
    \/ SensorLookup(r)
    \/ FindOne(r)
    \/ Create(r)

\* an await of the run rejects
Rejects(r) ==
    \/ AggregateFails(r)
    \/ LookupFails(r)
    \/ FindOneFails(r)
    \/ CreateFails(r)

RunStep(r) == Rejects(r) \/ Settles(r)

\* one detector call on a stored input
ProbeMechanical ==
    /\ probeOut' = [detector |-> "mechanical",
                    findings |-> detectMechanicalAnomalies(probe.records)]
    /\ UNCHANGED <<energyRecords, solarUnits, anomalies, run, batch, resolves, clean, probe, billingVars>>

ProbeTemperature ==
    /\ probeOut' = [detector |-> "temperature",
                    findings |-> detectTemperatureAnomalies(probe.records, probe.solarUnit)]
    /\ UNCHANGED <<energyRecords, solarUnits, anomalies, run, batch, resolves, clean, probe, billingVars>>

ProbeShading ==
    /\ probeOut' = [detector |-> "shading",
                    findings |-> detectShadingAnomalies(probe.records)]
    /\ UNCHANGED <<energyRecords, solarUnits, anomalies, run, batch, resolves, clean, probe, billingVars>>

ProbeSensor ==
    /\ probeOut' = [detector |-> "sensor",
                    findings |-> detectSensorErrors(probe.records, probe.solarUnit)]
    /\ UNCHANGED <<energyRecords, solarUnits, anomalies, run, batch, resolves, clean, probe, billingVars>>

\* Single writer per unit: detectAllAnomalies is called by the scheduled job only,
\* which awaits each call, so detection runs never overlap. Anomalies are resolved
\* at any time; the unit profiles are stable.
Next ==
    \/ BatchStart
    \/ BatchFind
    \/ BatchFindFails
    \/ BatchNext
    \/ RunStep("batch")
    \/ \E k \in 1..Len(anomalies) : ResolveAnomaly(k)

Spec == Init /\ [][Next]_vars

\* The scheduled job while units are deleted under it. Every await settles
\* (resolves or rejects), which is the fairness of the event loop.
NextBatch ==
    \/ BatchStart
    \/ BatchFind
    \/ BatchFindFails
    \/ BatchNext
    \/ RunStep("batch")
    \/ \E u \in UnitIds : DeleteSolarUnit(u)

BatchSpec ==
    /\ Init
    /\ [][NextBatch]_vars
    /\ WF_vars(BatchFind \/ BatchFindFails)
    /\ WF_vars(BatchNext)
    /\ WF_vars(RunStep("batch"))

\* On-demand requests overlap the scheduled job and may run for the same unit;
\* every repository call succeeds.
NextOverlapping ==
    \/ BatchStart
    \/ BatchFind
    \/ BatchFindFails
    \/ BatchNext
    \/ \E u \in UnitIds : OnDemand(u)
    \/ \E r \in Callers : Settles(r)

OverlappingSpec == Init /\ [][NextOverlapping]_vars

\* The detectors as functions: every series up to MaxLen days, known and unknown unit.
DetectorEnergies == {-5, 0, 3, 13}

DetectorInit ==
    /\ probe \in [records : SeqsUpTo(DetectorEnergies, MaxLen),
                  solarUnit : {Null} \cup [capacity : Capacities, status : {"ACTIVE"}]]
    /\ probeOut = NoProbeOut
    /\ BillingIdle
    /\ energyRecords = [u \in UnitIds |-> <<>>]
    /\ solarUnits = [u \in UnitIds |-> Null]
    /\ anomalies = <<>>
    /\ run = [r \in Callers |-> IdleRun]
    /\ batch = IdleBatch
    /\ resolves = 0
    /\ clean = [u \in UnitIds |-> FALSE]

NextDetector ==
    \/ ProbeMechanical
    \/ ProbeTemperature
    \/ ProbeShading
    \/ ProbeSensor

DetectorSpec == DetectorInit /\ [][NextDetector]_vars

\* a single detector on every series of a family, for known units of the given capacities
ProbeInit(series, units) ==
    /\ probe \in [records : series, solarUnit : units]
    /\ probeOut = NoProbeOut
    /\ BillingIdle
    /\ energyRecords = [u \in UnitIds |-> <<>>]
    /\ solarUnits = [u \in UnitIds |-> Null]
    /\ anomalies = <<>>
    /\ run = [r \in Callers |-> IdleRun]
    /\ batch = IdleBatch
    /\ resolves = 0
    /\ clean = [u \in UnitIds |-> FALSE]

\* detectMechanicalAnomalies on totals around its thresholds (3 = 0.3 * 10, 2 = 0.2 * 10)
MechanicalEnergies == {0, 1, 2, 3, 10}

MechanicalInit == ProbeInit(SeqsUpTo(MechanicalEnergies, MaxLen), {Null})

MechanicalSpec == MechanicalInit /\ [][ProbeMechanical]_vars

\* detectSensorErrors: totals around the bounds of a 5 kW unit (0 and 60) and the
\* totals of a steady week with one spike
SensorBoundEnergies == {-1, 10, 60, 61}
SensorOutlierEnergies == {9, 10, 11, 12, 50}
SensorCapacities == {1, 5}

SensorInit ==
    ProbeInit(SeqsUpTo(SensorBoundEnergies, MaxLen) \cup SeqsUpTo(SensorOutlierEnergies, MaxLen),
              [capacity : SensorCapacities, status : {"ACTIVE"}])

SensorSpec == SensorInit /\ [][ProbeSensor]_vars

\* detectShadingAnomalies: peak days of 20 and shaded days around 0.25 * 20
ShadingEnergies == {2, 4, 5, 20}

ShadingInit == ProbeInit(SeqsUpTo(ShadingEnergies, MaxLen), {Null})

ShadingSpec == ShadingInit /\ [][ProbeShading]_vars

\* detectTemperatureAnomalies: for a 5 kW unit expectedDaily = 40, 0.6 of it is 24
\* and 40 percent of it is 16
TemperatureEnergies == {0, 16, 24, 40}
TemperatureCapacities == {1, 5}

TemperatureInit ==
    ProbeInit(SeqsUpTo(TemperatureEnergies, MaxTemperatureLen),
              [capacity : TemperatureCapacities, status : {"ACTIVE"}])

TemperatureSpec == TemperatureInit /\ [][ProbeTemperature]_vars

\* The scheduled job while new days of low production are synced for the first unit
\* (1 kW: expected 8 a day, a week of 3 a day is 37.5 percent of it).
SyncedEnergies == {3, 4}

SyncingInit ==
    /\ energyRecords = [u \in UnitIds |-> IF u = Units[1] THEN [i \in 1..7 |-> 3] ELSE <<>>]
    /\ solarUnits \in [UnitIds -> [capacity : Capacities, status : Statuses]]
    /\ anomalies = <<>>
    /\ run = [r \in Callers |-> IdleRun]
    /\ batch = IdleBatch
    /\ resolves = 0
    /\ clean = [u \in UnitIds |-> FALSE]
    /\ probe = NoProbe
    /\ probeOut = NoProbeOut
    /\ BillingIdle

NextSyncing ==
    \/ BatchStart
    \/ BatchFind
    \/ BatchFindFails
    \/ BatchNext
    \/ Settles("batch")
    \/ \E energy \in SyncedEnergies : InsertDay(Units[1], energy)

SyncingSpec == SyncingInit /\ [][NextSyncing]_vars

\* generateInvoices, run again and again while time passes. The first unit is active
\* and has a user; the second varies. A unit has at most one reading a month, inside
\* the month; the second unit has a reading every month or none. Every await settles.
BillingInit ==
    /\ solarUnits \in
         {[u \in UnitIds |-> IF u = Units[1] THEN first ELSE second] :
            first \in [capacity : Capacities, status : {"ACTIVE"}, userId : {"alice"},
                       installationDate : {0, InstantsPerMonth + 1}],
            second \in [capacity : Capacities, status : Statuses, userId : UserIds,
                        installationDate : {1}]}
    /\ LET inside == {t \in Instants : t >= InstantsPerMonth /\ t % InstantsPerMonth = 1}
       IN readings \in {[u \in UnitIds |-> IF u = Units[1] THEN first ELSE second] :
                          first \in SUBSET inside, second \in {{}, inside}}
    /\ now = 0
    /\ invoices = <<>>
    /\ gen = IdleGen
    /\ hook = [h \in Handlers |-> IdleHook]
    /\ energyRecords = [u \in UnitIds |-> <<>>]
    /\ anomalies = <<>>
    /\ run = [r \in Callers |-> IdleRun]
    /\ batch = IdleBatch
    /\ resolves = 0
    /\ clean = [u \in UnitIds |-> FALSE]
    /\ probe = NoProbe
    /\ probeOut = NoProbeOut

GenStep == GenFind \/ GenUnit \/ GenUser \/ GenFindOne \/ GenSum \/ GenCreate \/ GenFails

NextBilling ==
    \/ GenStart
    \/ GenStep
    \/ Tick

BillingSpec == BillingInit /\ [][NextBilling]_vars /\ WF_vars(GenStep)

\* Stripe delivers events for the invoices generateInvoices has created for the first
\* unit, one of them possibly while the request of another is in progress
WebhookInit ==
    /\ solarUnits = [u \in UnitIds |->
                       [capacity |-> 1, status |-> "ACTIVE", userId |-> "alice",
                        installationDate |-> 0]]
    /\ readings = [u \in UnitIds |-> {}]
    /\ now \in {InstantsPerMonth, 2 * InstantsPerMonth}
    /\ invoices = [i \in 1..(now \div InstantsPerMonth) |->
                     InvoiceDocument(Units[1], "alice", i * InstantsPerMonth,
                                     MonthEnd(i * InstantsPerMonth), 1)]
    /\ gen = IdleGen
    /\ hook = [h \in Handlers |-> IdleHook]
    /\ energyRecords = [u \in UnitIds |-> <<>>]
    /\ anomalies = <<>>
    /\ run = [r \in Callers |-> IdleRun]
    /\ batch = IdleBatch
    /\ resolves = 0
    /\ clean = [u \in UnitIds |-> FALSE]
    /\ probe = NoProbe
    /\ probeOut = NoProbeOut

NextWebhook ==
    \/ \E h \in Handlers, signed \in BOOLEAN, type \in EventTypes,
          invoiceId \in {NoInvoiceId, MissingInvoiceId} \cup 1..Len(invoices),
          payment_status \in PaymentStatuses :
          Deliver(h, signed, type, invoiceId, payment_status)
    \/ \E h \in Handlers : HookFind(h)
    \/ \E h \in Handlers : HookUpdate(h)
    \/ \E h \in Handlers : HookFails(h)
    \/ Tick

WebhookSpec == WebhookInit /\ [][NextWebhook]_vars

\* ------------------------------------------------------------------ claims

\* the fields the duplicate check compares
SameKey(a, b) ==
    /\ a.solarUnitId = b.solarUnitId
    /\ a.anomalyType = b.anomalyType
    /\ a.affectedStartDate = b.affectedStartDate

\* an unresolved document exists for the finding of the unit
HasUnresolved(solarUnitId, anomaly) ==
    \E k \in 1..Len(anomalies) :
        /\ anomalies[k].solarUnitId = solarUnitId
        /\ anomalies[k].anomalyType = anomaly.anomalyType
        /\ anomalies[k].affectedStartDate = anomaly.affectedStartDate
        /\ anomalies[k].resolved = FALSE

\* the documents of one unit, in insertion order
OfUnit(repo, solarUnitId) == SelectSeq(repo, LAMBDA a : a.solarUnitId = solarUnitId)

\* the run reached its completion log
Completed(rr) == rr.pc = "done" /\ rr.log # Null

\* C1: with non-overlapping runs, the repository never holds two unresolved
\* anomalies with the same (solarUnitId, anomalyType, affectedStartDate).
C1_AtMostOneUnresolvedPerKey ==
    \A i, j \in 1..Len(anomalies) :
        (i < j /\ ~anomalies[i].resolved /\ ~anomalies[j].resolved)
            => ~SameKey(anomalies[i], anomalies[j])

\* a completed run whose findings held two entries with one key: one created, one skipped
C1_Witness ==
    \E r \in Callers :
        /\ Completed(run[r])
        /\ run[r].createdCount >= 1
        /\ run[r].skippedCount >= 1
        /\ run[r].before = <<>>
        /\ \E i, j \in 1..Len(run[r].allAnomalies) :
              /\ i < j
              /\ run[r].allAnomalies[i].anomalyType = run[r].allAnomalies[j].anomalyType
              /\ run[r].allAnomalies[i].affectedStartDate
                   = run[r].allAnomalies[j].affectedStartDate

\* C2: a run that directly follows a completed run for the same unit, with nothing
\* resolved meanwhile, creates no record: it skips every finding and leaves the
\* repository as it found it.
C2_SecondRunCreatesNothing ==
    \A r \in Callers :
        run[r].second =>
            /\ run[r].createdCount = 0
            /\ OfUnit(anomalies, run[r].unit) = OfUnit(run[r].before, run[r].unit)
            /\ Completed(run[r]) =>
                  /\ run[r].log.created = 0
                  /\ run[r].log.skipped = run[r].log.detected

\* a repeat run that completed and skipped at least two findings
C2_Witness ==
    \E r \in Callers :
        /\ run[r].second
        /\ Completed(run[r])
        /\ run[r].log.skipped >= 2

\* C3: after a completed run, every finding of the run has an unresolved record,
\* also when resolved records with the same key exist: resolved records never
\* suppress re-detection.
C3_ResolvedDoesNotSuppress ==
    \A r \in Callers :
        (Completed(run[r]) /\ ~run[r].tainted) =>
            \A i \in 1..Len(run[r].allAnomalies) :
                HasUnresolved(run[r].unit, run[r].allAnomalies[i])

\* a completed run re-created a finding whose earlier record had been resolved
C3_Witness ==
    \E r \in Callers :
        /\ Completed(run[r])
        /\ ~run[r].tainted
        /\ run[r].createdCount >= 1
        /\ \E k, n \in 1..Len(anomalies) :
              /\ k <= Len(run[r].before)
              /\ n > Len(run[r].before)
              /\ anomalies[k].resolved
              /\ ~anomalies[n].resolved
              /\ SameKey(anomalies[k], anomalies[n])

\* C4 (as claimed): a failing findOne or create skips only its finding, so a run
\* that entered the persist phase has looked up every finding when it ends.
C4_LaterFindingsStillChecked ==
    \A r \in Callers :
        (run[r].pc = "done" /\ Len(run[r].allAnomalies) > 0)
            => run[r].finds = Len(run[r].allAnomalies)

\* C5: no error escapes detectAllAnomalies, and a batch that entered its loop ends
\* having called detection for every unit it found, in order.
C5_BatchVisitsEveryUnit ==
    /\ [](\A r \in Callers : ~run[r].escaped)
    /\ (batch.pc = "loop") ~>
          (batch.pc = "done" /\ ~batch.aborted /\ batch.called = batch.solarUnits)

\* the first unit's run failed and detection was called for the second unit
C5_Witness ==
    /\ batch.pc = "loop"
    /\ batch.k = 2
    /\ batch.failures = 1
    /\ run["batch"].pc = "aggregate"

\* C6 (as claimed): a run that met an unknown unit or a failed collaborator read
\* creates no anomaly record.
C6_UnavailableCreatesNothing ==
    \A r \in Callers : run[r].unavailable => run[r].createdCount = 0

\* C7 (as claimed): every finished run hands its caller the detected, created and
\* skipped counts.
C7_ReturnsCounts ==
    \A r \in Callers :
        run[r].pc = "done" =>
            /\ run[r].ret.kind = "counts"
            /\ run[r].log # Null

\* C8: when the aggregate query returns an empty series the run ends at once: no
\* detector invoked, no lookup, no create, no error, repository unchanged.
C8_EmptySeriesNoEffect ==
    \A r \in Callers :
        (run[r].aggregated /\ Len(run[r].records) = 0) =>
            /\ run[r].pc = "done"
            /\ ~run[r].invoked
            /\ run[r].finds = 0
            /\ run[r].createdCount = 0
            /\ ~run[r].errored
            /\ Len(anomalies) = Len(run[r].before)

\* a run returned on an empty series while the repository held records of another unit
C8_Witness ==
    \E r \in Callers :
        /\ run[r].aggregated
        /\ run[r].records = <<>>
        /\ run[r].pc = "done"
        /\ anomalies # <<>>

\* C9: the create that follows a "not found" lookup is not re-checked: it always
\* appends, also when an overlapping run has created the same key meanwhile.
C9_CreateNotRechecked ==
    [][\A r \in Callers :
          (run[r].pc = "create" /\ run'[r].createdCount = run[r].createdCount + 1)
              => anomalies' = Append(anomalies,
                                     [solarUnitId |-> run[r].unit,
                                      anomalyType |-> run[r].allAnomalies[run[r].i].anomalyType,
                                      severity |-> run[r].allAnomalies[run[r].i].severity,
                                      affectedStartDate |->
                                          run[r].allAnomalies[run[r].i].affectedStartDate,
                                      affectedEndDate |->
                                          run[r].allAnomalies[run[r].i].affectedEndDate,
                                      metadata |-> run[r].allAnomalies[run[r].i].metadata,
                                      resolved |-> FALSE,
                                      resolvedAt |-> 0])]_vars

\* two unresolved records with one key
C9_Witness ==
    \E i, j \in 1..Len(anomalies) :
        /\ i < j
        /\ ~anomalies[i].resolved
        /\ ~anomalies[j].resolved
        /\ SameKey(anomalies[i], anomalies[j])

\* C10: a detector called on a series shorter than its minimum history (mechanical 2,
\* sensor error 3, shading 5, temperature 7) returns no finding.
C10_ShortSeriesNoFindings ==
    LET n == Len(probe.records)
    IN /\ (probeOut.detector = "mechanical" /\ n < 2) => probeOut.findings = <<>>
       /\ (probeOut.detector = "sensor" /\ n < 3) => probeOut.findings = <<>>
       /\ (probeOut.detector = "shading" /\ n < 5) => probeOut.findings = <<>>
       /\ (probeOut.detector = "temperature" /\ n < 7) => probeOut.findings = <<>>

\* six days that the temperature rule would flag, had it not returned early
C10_Witness ==
    /\ probeOut.detector = "temperature"
    /\ Len(probe.records) = 6
    /\ probe.solarUnit # Null
    /\ detectTemperatureFindings(probe.records, probe.solarUnit) # <<>>
    /\ probeOut.findings = <<>>

\* the findings of the probed detector call
Findings == probeOut.findings

\* the findings dated day i
FindingsOn(i) == {k \in 1..Len(Findings) : Findings[k].affectedStartDate = i}

\* two exact fractions denote the same number (denominators positive)
PctEq(p, q) == p.num * q.den = q.num * p.den

\* p > q for exact fractions with positive denominators
PctGt(p, q) == p.num * q.den > q.num * p.den

\* C11: mechanical zero rule. For every consecutive pair (prev, curr) with
\* curr = 0 and prev > 0.3 * avg, exactly one finding is emitted for curr's
\* date, CRITICAL, single-day, with dropPercentage 100; [10,10,10,10,0] yields
\* exactly one finding, for the zero day.
C11_ZeroRuleFinding ==
    probeOut.detector = "mechanical" =>
        LET rs == probe.records
            n == Len(rs)
            total == Sum(rs)
        IN /\ \A i \in 2..n :
                (rs[i] = 0 /\ rs[i - 1] * 10 * n > 3 * total) =>
                    /\ Cardinality(FindingsOn(i)) = 1
                    /\ \A k \in FindingsOn(i) :
                          /\ Findings[k].anomalyType = "MECHANICAL"
                          /\ Findings[k].severity = "CRITICAL"
                          /\ Findings[k].affectedEndDate = i
                          /\ Findings[k].metadata.previousEnergy = rs[i - 1]
                          /\ Findings[k].metadata.currentEnergy = 0
                          /\ PctEq(Findings[k].metadata.dropPercentage, Pct(100, 1))
           /\ rs = <<10, 10, 10, 10, 0>> =>
                (Len(Findings) = 1 /\ Findings[1].affectedStartDate = 5)

\* the series [10,10,10,10,0] probed: one critical finding on the fifth day
C11_Witness ==
    /\ probeOut.detector = "mechanical"
    /\ probe.records = <<10, 10, 10, 10, 0>>
    /\ Len(Findings) = 1
    /\ Findings[1].severity = "CRITICAL"
    /\ Findings[1].affectedStartDate = 5

\* C17: mechanical drop rule. For a consecutive pair not matched by the zero
\* rule a finding is emitted exactly when prev > 0, curr < 0.3 * prev and
\* curr < 0.5 * avg; it is CRITICAL when (prev - curr) / prev * 100 > 80 and
\* WARNING otherwise (exactly 80 is WARNING); a day has at most one mechanical
\* finding and the first day has none.
C17_DropRuleFinding ==
    probeOut.detector = "mechanical" =>
        LET rs == probe.records
            n == Len(rs)
            total == Sum(rs)
        IN /\ \A k \in 1..Len(Findings) : Findings[k].affectedStartDate \in 2..n
           /\ \A i \in 1..n : Cardinality(FindingsOn(i)) <= 1
           /\ \A i \in 2..n :
                LET prev == rs[i - 1]
                    curr == rs[i]
                IN ~(curr = 0 /\ prev * 10 * n > 3 * total) =>
                     /\ (FindingsOn(i) # {}) <=>
                           (prev > 0 /\ curr * 10 < 3 * prev /\ curr * 2 * n < total)
                     /\ \A k \in FindingsOn(i) :
                           /\ Findings[k].anomalyType = "MECHANICAL"
                           /\ Findings[k].affectedEndDate = i
                           /\ PctEq(Findings[k].metadata.dropPercentage,
                                    Pct((prev - curr) * 100, prev))
                           /\ Findings[k].severity =
                                 (IF PctGt(Pct((prev - curr) * 100, prev), Pct(80, 1))
                                  THEN "CRITICAL" ELSE "WARNING")

\* [10,2,10,1]: a drop of exactly 80 percent (WARNING), then one of 90 percent (CRITICAL)
C17_Witness ==
    /\ probeOut.detector = "mechanical"
    /\ probe.records = <<10, 2, 10, 1>>
    /\ Len(Findings) = 2
    /\ Findings[1].affectedStartDate = 2 /\ Findings[1].severity = "WARNING"
    /\ Findings[2].affectedStartDate = 4 /\ Findings[2].severity = "CRITICAL"

\* the findings of the given error type dated day i
SensorFindingsOn(i, errorType) ==
    {k \in FindingsOn(i) : Findings[k].metadata.errorType = errorType}

\* C12: sensor bounds pass, series of at least 3 days, maxPossible = capacity * 10.
\* A day gets a CRITICAL NEGATIVE_VALUE finding exactly when its energy < 0 and a
\* CRITICAL EXCEEDS_MAXIMUM finding exactly when its energy > 1.2 * maxPossible
\* (energy = 1.2 * maxPossible is not flagged); with capacity 5, -1 and 61 are flagged.
C12_SensorBounds ==
    (probeOut.detector = "sensor" /\ Len(probe.records) >= 3) =>
        LET rs == probe.records
            maxPossible == probe.solarUnit.capacity * 10
        IN \A i \in 1..Len(rs) :
              /\ Cardinality(SensorFindingsOn(i, "NEGATIVE_VALUE")) = (IF rs[i] < 0 THEN 1 ELSE 0)
              /\ Cardinality(SensorFindingsOn(i, "EXCEEDS_MAXIMUM")) =
                    (IF rs[i] * 10 > 12 * maxPossible THEN 1 ELSE 0)
              /\ \A k \in SensorFindingsOn(i, "NEGATIVE_VALUE")
                          \cup SensorFindingsOn(i, "EXCEEDS_MAXIMUM") :
                    /\ Findings[k].anomalyType = "SENSOR_ERROR"
                    /\ Findings[k].severity = "CRITICAL"
                    /\ Findings[k].affectedEndDate = i
                    /\ Findings[k].metadata.invalidValue = rs[i]

\* capacity 5 and the series [-1, 60, 61]: the first and the third day are flagged,
\* the day at exactly 1.2 * maxPossible is not
C12_Witness ==
    /\ probeOut.detector = "sensor"
    /\ probe.solarUnit.capacity = 5
    /\ probe.records = <<-1, 60, 61>>
    /\ SensorFindingsOn(1, "NEGATIVE_VALUE") # {}
    /\ SensorFindingsOn(2, "EXCEEDS_MAXIMUM") = {}
    /\ SensorFindingsOn(3, "EXCEEDS_MAXIMUM") # {}

\* the k-th smallest total of the series, k counted from zero
OrderStatistic(rs, k) ==
    CHOOSE v \in {rs[i] : i \in 1..Len(rs)} :
        /\ Cardinality({i \in 1..Len(rs) : rs[i] < v}) <= k
        /\ k < Cardinality({i \in 1..Len(rs) : rs[i] <= v})

\* C13: sensor IQR pass. With q1 = sorted[floor(n * 0.25)], q3 = sorted[floor(n * 0.75)]
\* and iqr = q3 - q1, a day gets a WARNING STATISTICAL_OUTLIER finding exactly when
\* its value is < q1 - 1.5 * iqr or > q3 + 1.5 * iqr; on [10,11,9,10,12,10,50] the
\* only day flagged is the one with value 50.
C13_SensorOutliers ==
    (probeOut.detector = "sensor" /\ Len(probe.records) >= 3) =>
        LET rs == probe.records
            n == Len(rs)
            q1 == OrderStatistic(rs, n \div 4)
            q3 == OrderStatistic(rs, (3 * n) \div 4)
            iqr == q3 - q1
        IN /\ \A i \in 1..n :
                /\ Cardinality(SensorFindingsOn(i, "STATISTICAL_OUTLIER")) =
                      (IF 2 * rs[i] < 2 * q1 - 3 * iqr \/ 2 * rs[i] > 2 * q3 + 3 * iqr
                       THEN 1 ELSE 0)
                /\ \A k \in SensorFindingsOn(i, "STATISTICAL_OUTLIER") :
                      /\ Findings[k].anomalyType = "SENSOR_ERROR"
                      /\ Findings[k].severity = "WARNING"
                      /\ Findings[k].affectedEndDate = i
                      /\ Findings[k].metadata.outlierValue = rs[i]
           /\ rs = <<10, 11, 9, 10, 12, 10, 50>> =>
                \A i \in 1..n : (SensorFindingsOn(i, "STATISTICAL_OUTLIER") # {}) <=> (i = 7)

\* the week [10,11,9,10,12,10,50] of a 5 kW unit: one finding, the outlier 50
C13_Witness ==
    /\ probeOut.detector = "sensor"
    /\ probe.solarUnit.capacity = 5
    /\ probe.records = <<10, 11, 9, 10, 12, 10, 50>>
    /\ Len(Findings) = 1
    /\ Findings[1].metadata.errorType = "STATISTICAL_OUTLIER"
    /\ Findings[1].metadata.outlierValue = 50
    /\ Findings[1].severity = "WARNING"

\* the sum of the three largest totals of a series of at least three days
Top3Sum(rs) ==
    LET distinct == {rs[t[1]] + rs[t[2]] + rs[t[3]] :
                  t \in {u \in (1..Len(rs)) \X (1..Len(rs)) \X (1..Len(rs)) :
                            u[1] < u[2] /\ u[2] < u[3]}}
    IN CHOOSE m \in distinct : \A x \in distinct : x <= m

\* C14: shading detector, series of at least 5 days. Exactly one finding when
\* top3Avg > 0, overallAvg < 0.7 * top3Avg (strictly) and at least 3 days are below
\* 0.75 * top3Avg, none otherwise; it spans the first to the last low day and is
\* WARNING if reductionPercent > 40, else INFO. [20,20,20,5,5] and [20,20,20,4,4]
\* yield nothing, [20,20,20,4,4,4] yields a finding.
C14_ShadingFinding ==
    (probeOut.detector = "shading" /\ Len(probe.records) >= 5) =>
        LET rs == probe.records
            n == Len(rs)
            t3 == Top3Sum(rs)
            total == Sum(rs)
            low == {i \in 1..n : 4 * rs[i] < t3}
            emits == t3 > 0 /\ 30 * total < 7 * n * t3 /\ Cardinality(low) >= 3
        IN /\ Len(Findings) = (IF emits THEN 1 ELSE 0)
           /\ emits =>
                /\ Findings[1].anomalyType = "SHADING"
                /\ Findings[1].affectedStartDate \in low
                /\ Findings[1].affectedEndDate \in low
                /\ \A i \in low : Findings[1].affectedStartDate <= i
                                  /\ i <= Findings[1].affectedEndDate
                /\ Findings[1].severity =
                      (IF 100 * (n * t3 - 3 * total) > 40 * n * t3 THEN "WARNING" ELSE "INFO")
           /\ rs \in {<<20, 20, 20, 5, 5>>, <<20, 20, 20, 4, 4>>} => Len(Findings) = 0
           /\ rs \in {<<20, 20, 20, 4, 4, 4>>, <<20, 20, 20, 4, 4, 2>>} => Len(Findings) = 1

\* a third low day added to [20,20,20,4,4]: one finding over days 4 to 6, and the
\* reduction of about 42 percent makes it a WARNING
C14_Witness ==
    /\ probeOut.detector = "shading"
    /\ probe.records = <<20, 20, 20, 4, 4, 2>>
    /\ Len(Findings) = 1
    /\ Findings[1].affectedStartDate = 4
    /\ Findings[1].affectedEndDate = 6
    /\ Findings[1].severity = "WARNING"

\* C18: temperature detector, series of at least 7 days, expectedDaily = capacity * 8.
\* Exactly one finding when the mean of the last 7 entries satisfies
\* 0 < avgRecent < 0.6 * expectedDaily, none otherwise; WARNING if
\* avgRecent / expectedDaily * 100 < 40, else INFO; the range is the first to the
\* last of those 7 entries; entries before the last 7 do not affect the result.
C18_TemperatureFinding ==
    (probeOut.detector = "temperature" /\ Len(probe.records) >= 7) =>
        LET rs == probe.records
            n == Len(rs)
            expectedDaily == probe.solarUnit.capacity * 8
            sum7 == Sum([j \in 1..7 |-> rs[n - 7 + j]])
            emits == sum7 > 0 /\ 10 * sum7 < 6 * 7 * expectedDaily
        IN /\ Len(Findings) = (IF emits THEN 1 ELSE 0)
           /\ emits =>
                /\ Findings[1].anomalyType = "TEMPERATURE"
                /\ Findings[1].affectedStartDate = n - 6
                /\ Findings[1].affectedEndDate = n
                /\ Findings[1].metadata.daysAnalyzed = 7
                /\ Findings[1].severity =
                      (IF 100 * sum7 < 40 * 7 * expectedDaily THEN "WARNING" ELSE "INFO")

\* an eight-day series of a 5 kW unit whose first day is high and whose last seven
\* days average exactly 40 percent of the expected energy: one INFO finding, days 2 to 8
C18_Witness ==
    /\ probeOut.detector = "temperature"
    /\ probe.solarUnit.capacity = 5
    /\ probe.records = <<40, 16, 16, 16, 16, 16, 16, 16>>
    /\ Len(Findings) = 1
    /\ Findings[1].severity = "INFO"
    /\ Findings[1].affectedStartDate = 2
    /\ Findings[1].affectedEndDate = 8

\* C15: every anomaly record created by a detection run has a non-empty metadata
\* mapping; no record is stored with the schema default, the empty object.
C15_MetadataNeverEmpty ==
    \A k \in 1..Len(anomalies) : DOMAIN anomalies[k].metadata # {}

\* records of three detectors stored for one unit, each with its own metadata keys
C15_Witness ==
    \E i, j, k \in 1..Len(anomalies) :
        /\ anomalies[i].anomalyType = "MECHANICAL"
        /\ "dropPercentage" \in DOMAIN anomalies[i].metadata
        /\ anomalies[j].anomalyType = "TEMPERATURE"
        /\ "efficiencyPercent" \in DOMAIN anomalies[j].metadata
        /\ anomalies[k].anomalyType = "SENSOR_ERROR"
        /\ "errorType" \in DOMAIN anomalies[k].metadata

\* C16: a detection run for unit X only adds records whose solarUnitId is X. It never
\* deletes a record and never changes a field of an existing one, also when a new
\* finding with the key of an existing unresolved record differs in severity, end
\* date or metadata; the number of anomaly records never decreases.
C16_RunOnlyAddsOwnRecords ==
    [][ /\ Len(anomalies') >= Len(anomalies)
        /\ (resolves' = resolves) =>
              /\ SubSeq(anomalies', 1, Len(anomalies)) = anomalies
              /\ \A k \in (Len(anomalies) + 1)..Len(anomalies') :
                    \E r \in Callers :
                        /\ run[r].pc = "create"
                        /\ anomalies'[k].solarUnitId = run[r].unit ]_vars

\* a completed run skipped a finding whose stored unresolved record has another
\* severity and other metadata; that record is still the only one of its key
C16_Witness ==
    \E r \in Callers :
        /\ Completed(run[r])
        /\ run[r].skippedCount >= 1
        /\ \E i \in 1..Len(run[r].allAnomalies), k \in 1..Len(anomalies) :
              /\ anomalies[k].solarUnitId = run[r].unit
              /\ anomalies[k].anomalyType = run[r].allAnomalies[i].anomalyType
              /\ anomalies[k].affectedStartDate = run[r].allAnomalies[i].affectedStartDate
              /\ ~anomalies[k].resolved
              /\ anomalies[k].severity # run[r].allAnomalies[i].severity
              /\ anomalies[k].metadata # run[r].allAnomalies[i].metadata
              /\ \A j \in 1..Len(anomalies) :
                    SameKey(anomalies[j], anomalies[k]) => j = k

\* C19: in every detection run no repository lookup or create happens before all
\* four detectors have returned, and no detector performs a repository write: the
\* run detects (fan-out, join), then deduplicates and persists one finding at a time.
C19_DetectThenPersist ==
    /\ [](\A r \in Callers :
            /\ run[r].pc \in {"aggregate", "detect"} =>
                  (run[r].finds = 0 /\ run[r].createdCount = 0 /\ run[r].skippedCount = 0)
            /\ run[r].pc \in {"findOne", "create"} =>
                  /\ run[r].pending = {}
                  /\ run[r].invoked
                  /\ run[r].i \in 1..Len(run[r].allAnomalies)
                  /\ run[r].allAnomalies =
                        run[r].mechanicalAnomalies \o run[r].temperatureAnomalies
                          \o run[r].shadingAnomalies \o run[r].sensorErrors
                  /\ run[r].createdCount + run[r].skippedCount = run[r].i - 1)
    /\ [][ \A r \in Callers :
              (/\ run[r].pc \in {"aggregate", "detect"}
               /\ run'[r] # run[r]
               /\ resolves' = resolves) => anomalies' = anomalies ]_vars

\* the join of a week-long series: both profile reads have returned, the findings of
\* three detectors are combined and the first lookup has not been made yet
C19_Witness ==
    \E r \in Callers :
        /\ run[r].pc = "findOne"
        /\ run[r].finds = 0
        /\ run[r].pending = {}
        /\ TemperatureNeedsUnit(run[r].records)
        /\ run[r].mechanicalAnomalies # <<>>
        /\ run[r].temperatureAnomalies # <<>>
        /\ run[r].sensorErrors # <<>>
        /\ anomalies = run[r].before

\* position of a detector in the combined list
DetectorRank(a) ==
    CASE a.anomalyType = "MECHANICAL" -> 1
      [] a.anomalyType = "TEMPERATURE" -> 2
      [] a.anomalyType = "SHADING" -> 3
      [] a.anomalyType = "SENSOR_ERROR" -> 4

\* the pass of the sensor detector that emitted a finding (0 for the other detectors)
SensorPass(a) ==
    IF a.anomalyType = "SENSOR_ERROR" /\ a.metadata.errorType = "STATISTICAL_OUTLIER"
    THEN 1 ELSE 0

\* a is handled before b: detector order, then bounds before outliers, then date order
HandledBefore(a, b) ==
    \/ DetectorRank(a) < DetectorRank(b)
    \/ /\ DetectorRank(a) = DetectorRank(b)
       /\ \/ SensorPass(a) < SensorPass(b)
          \/ SensorPass(a) = SensorPass(b) /\ a.affectedStartDate < b.affectedStartDate

\* C20: the findings are deduplicated and persisted in the order mechanical,
\* temperature, shading, sensor error, and within a detector in the order it emitted
\* them (sensor error: bounds findings in date order, then outlier findings in date
\* order), whatever the order in which the concurrent detectors complete.
C20_PersistInDetectorOrder ==
    \A r \in Callers :
        /\ \A i, j \in 1..Len(run[r].allAnomalies) :
              i < j => HandledBefore(run[r].allAnomalies[i], run[r].allAnomalies[j])
        /\ run[r].pc \in {"findOne", "create"} =>
              run[r].createdCount + run[r].skippedCount = run[r].i - 1
        /\ (run[r].unit # NoUnit /\ Len(run[r].before) <= Len(anomalies)) =>
              LET new == SubSeq(anomalies, Len(run[r].before) + 1, Len(anomalies))
              IN /\ Len(new) = run[r].createdCount
                 /\ \A i, j \in 1..Len(new) : i < j => HandledBefore(new[i], new[j])

\* the sensor detector returned before the temperature detector, and the run stored
\* its mechanical, temperature and sensor findings in that order
C20_Witness ==
    \E r \in Callers :
        /\ Completed(run[r])
        /\ run[r].completed = <<"mechanical", "shading", "sensor", "temperature">>
        /\ run[r].before = <<>>
        /\ Len(anomalies) >= 3
        /\ anomalies[1].anomalyType = "MECHANICAL"
        /\ anomalies[2].anomalyType = "TEMPERATURE"
        /\ anomalies[3].anomalyType = "SENSOR_ERROR"

\* C21: no detector mutates the shared daily series or other shared state, so the
\* merged findings of a run are the same for every interleaving of the four
\* detectors and equal the result of running them one after another.
C21_DetectorsShareNoState ==
    \A r \in Callers :
        LET rr == run[r]
            series == energyRecords[rr.unit]
            solarUnit == solarUnits[rr.unit]
        IN /\ (rr.aggregated /\ rr.unit # NoUnit) => rr.records = series
           /\ (rr.pc \in {"findOne", "create"} \/ Completed(rr)) =>
                 rr.allAnomalies =
                     detectMechanicalAnomalies(series)
                       \o detectTemperatureAnomalies(series, solarUnit)
                       \o detectShadingAnomalies(series)
                       \o detectSensorErrors(series, solarUnit)

\* the sensor detector finished before the temperature detector on a week that is
\* not in energy order; the temperature finding still covers days 1 to 7
C21_Witness ==
    \E r \in Callers :
        /\ run[r].pc = "findOne"
        /\ run[r].completed = <<"mechanical", "shading", "sensor", "temperature">>
        /\ run[r].records = <<3, 3, 3, 3, 3, 3, -5>>
        /\ Len(run[r].temperatureAnomalies) = 1
        /\ run[r].temperatureAnomalies[1].affectedStartDate = 1
        /\ run[r].sensorErrors # <<>>

\* C22: every EXCEEDS_MAXIMUM finding of the sensor error detector carries the
\* overshoot percentage (how far the reading exceeds the theoretical maximum) in
\* its metadata, next to the reading, the maximum and the error type.
C22_OvershootInMetadata ==
    probeOut.detector = "sensor" =>
        \A k \in 1..Len(Findings) :
            Findings[k].metadata.errorType = "EXCEEDS_MAXIMUM" =>
                DOMAIN Findings[k].metadata
                    \ {"invalidValue", "theoreticalMax", "errorType"} # {}

\* C23: every anomaly record is created with resolved = false and no resolvedAt
\* (0 here); resolvedAt is set only on records with resolved = true; only
\* resolveAnomaly changes the two fields, and a resolved record never becomes
\* unresolved again.
C23_ResolutionLifecycle ==
    /\ [](\A k \in 1..Len(anomalies) : anomalies[k].resolvedAt # 0 => anomalies[k].resolved)
    /\ [][ /\ Len(anomalies') >= Len(anomalies)
           /\ \A k \in 1..Len(anomalies) :
                 /\ anomalies[k].resolved => anomalies'[k].resolved
                 /\ (resolves' = resolves) =>
                       /\ anomalies'[k].resolved = anomalies[k].resolved
                       /\ anomalies'[k].resolvedAt = anomalies[k].resolvedAt
           /\ \A k \in (Len(anomalies) + 1)..Len(anomalies') :
                 anomalies'[k].resolved = FALSE /\ anomalies'[k].resolvedAt = 0 ]_vars

\* a resolved record with its resolution time, and a later record created
\* unresolved and without one
C23_Witness ==
    \E i, j \in 1..Len(anomalies) :
        /\ i < j
        /\ anomalies[i].resolved /\ anomalies[i].resolvedAt = 1
        /\ ~anomalies[j].resolved /\ anomalies[j].resolvedAt = 0
        /\ resolves = 1

C25_ZeroGuardIrrelevant ==
    probeOut.detector = "mechanical" =>
        \A i \in 2..Len(probe.records) :
            (probe.records[i - 1] > 0 /\ probe.records[i] = 0) =>
                /\ Cardinality(FindingsOn(i)) = 1
                /\ \A k \in FindingsOn(i) :
                      /\ Findings[k].severity = "CRITICAL"
                      /\ Findings[k].affectedEndDate = i
                      /\ PctEq(Findings[k].metadata.dropPercentage, Pct(100, 1))

\* [10,10,10,10,2,0]: the last pair fails the guard (2 <= 0.3 * 7) and the drop rule
\* emits the critical finding, with the percentage computed as (2 - 0) / 2 * 100
C25_Witness ==
    /\ probeOut.detector = "mechanical"
    /\ probe.records = <<10, 10, 10, 10, 2, 0>>
    /\ Len(Findings) = 2
    /\ Findings[2].affectedStartDate = 6
    /\ Findings[2].severity = "CRITICAL"
    /\ Findings[2].metadata.dropPercentage = Pct(200, 2)

\* C26: at the end of every detection run that reaches its completion log,
\* createdCount + skippedCount equals the number of findings detected and
\* createdCount equals the number of records the run added to the repository.
C26_CountsAddUp ==
    \A r \in Callers :
        Completed(run[r]) =>
            /\ run[r].log.detected = Len(run[r].allAnomalies)
            /\ run[r].log.created + run[r].log.skipped = run[r].log.detected
            /\ run[r].log.created = Len(anomalies) - Len(run[r].before)
            /\ \A k \in (Len(run[r].before) + 1)..Len(anomalies) :
                  anomalies[k].solarUnitId = run[r].unit

\* a run on a repository that already held a record: three findings, two created
\* and one skipped
C26_Witness ==
    \E r \in Callers :
        /\ Completed(run[r])
        /\ run[r].before # <<>>
        /\ run[r].log = [created |-> 2, skipped |-> 1, detected |-> 3]
        /\ Len(anomalies) = Len(run[r].before) + 2

\* the unresolved TEMPERATURE records of a unit
OpenTemperature(u) ==
    {k \in 1..Len(anomalies) : /\ anomalies[k].solarUnitId = u
                               /\ anomalies[k].anomalyType = "TEMPERATURE"
                               /\ ~anomalies[k].resolved}

\* C27: the dedup key does not bound the unresolved TEMPERATURE anomalies of a unit.
\* After a run created one, appending a daily aggregate (mean of the new last 7
\* entries still above 0 and below 60 percent of expected) and re-running creates a
\* further unresolved TEMPERATURE record starting one entry later, while the earlier
\* record stays unresolved and unchanged.
C27_TemperatureRecordPerDay ==
    /\ [](\A r \in Callers :
            (Completed(run[r]) /\ run[r].temperatureAnomalies # <<>>) =>
                /\ \E k \in OpenTemperature(run[r].unit) :
                      /\ anomalies[k].affectedStartDate = Len(run[r].records) - 6
                      /\ anomalies[k].affectedEndDate = Len(run[r].records)
                /\ \A k \in OpenTemperature(run[r].unit) :
                      anomalies[k].affectedStartDate <= Len(run[r].records) - 6)
    /\ [][SubSeq(anomalies', 1, Len(anomalies)) = anomalies]_vars

\* two days were synced after the first week and the job ran after each: three
\* unresolved TEMPERATURE records of the unit, starting on days 1, 2 and 3
C27_Witness ==
    /\ Len(energyRecords[Units[1]]) = 9
    /\ Cardinality(OpenTemperature(Units[1])) = 3
    /\ \A d \in 1..3 : \E k \in OpenTemperature(Units[1]) :
          anomalies[k].affectedStartDate = d /\ anomalies[k].affectedEndDate = d + 6

\* C28: generateInvoices invoices each month only up to the previous month: it never
\* creates an invoice for the current, still incomplete calendar month, i.e. every
\* invoice it creates has a billingPeriodEnd earlier than the time of the run.
C28_NoInvoiceForCurrentMonth ==
    \A i \in 1..Len(invoices) : invoices[i].billingPeriodEnd < invoices[i].createdAt

\* the fields Invoice.findOne compares
SamePeriod(a, b) ==
    /\ a.solarUnitId = b.solarUnitId
    /\ a.billingPeriodStart = b.billingPeriodStart
    /\ a.billingPeriodEnd = b.billingPeriodEnd

\* generateInvoices is inside the while loop of a unit
InPeriodLoop == gen.pc \in {"findOne", "sum", "create"}

\* C29: with generateInvoices run one run after another, there is at most one invoice
\* per (solarUnitId, billingPeriodStart, billingPeriodEnd), a step of a run leaves
\* every invoice that exists as it is, and the loop over the monthly periods of a unit
\* is always left.
C29_OneInvoicePerPeriod ==
    /\ [](\A i, j \in 1..Len(invoices) : SamePeriod(invoices[i], invoices[j]) => i = j)
    /\ [][gen' # gen =>
            /\ Len(invoices') >= Len(invoices)
            /\ \A i \in 1..Len(invoices) : invoices'[i] = invoices[i]]_vars
    /\ (InPeriodLoop ~> ~InPeriodLoop)

\* a later run has passed the period an earlier run invoiced and has created the
\* invoice of a later period of the same unit
C29_Witness ==
    /\ gen.pc = "done"
    /\ ~gen.thrown
    /\ gen.created = 1
    /\ Len(invoices) = 2
    /\ invoices[1].solarUnitId = invoices[2].solarUnitId
    /\ invoices[1].createdAt < invoices[2].createdAt
    /\ invoices[1].billingPeriodStart < invoices[2].billingPeriodStart

\* C30: handleStripeWebhook updates an invoice only if it is not already paid: an
\* invoice that is PAID stays PAID with the paidAt it has, whatever verified
\* checkout.session.completed and checkout.session.async_payment_succeeded events
\* follow, redelivered ones included, and every verified event is answered with
\* HTTP 200.
C30_PaidInvoiceKeepsPaidAt ==
    /\ [][\A i \in 1..Len(invoices) :
             invoices[i].paymentStatus = "PAID" =>
                 /\ invoices'[i].paymentStatus = "PAID"
                 /\ invoices'[i].paidAt = invoices[i].paidAt]_vars
    /\ [](\A h \in Handlers :
             hook[h].pc = "answered" /\ hook[h].verified => hook[h].status = 200)

====
